---- MODULE Spec2Model ----
(***************************************************************************)
(* A model of three components of the repository:                          *)
(*   - edb/server/backend/dbview.py: Database, DatabaseConnectionView and  *)
(*     DatabaseIndex (compiled-query caches and transaction bookkeeping);  *)
(*   - edgedb/lang/edgeql/compiler/func.py: compile_FunctionCall and       *)
(*     check_function (overload selection);                                *)
(*   - edgedb/lang/graphql/parser/grammar/document.py: the reductions of   *)
(*     the document grammar that validate what they reduce.                *)
(* Each component has its own specification over its own variables; the    *)
(* variables of the other components stay at their initial values.         *)
(***************************************************************************)
EXTENDS Integers, Sequences, FiniteSets, TLC

VARIABLES
    now,        \* the reading time.monotonic_ns() returns
    db,         \* the Database: _dbver and _eql_to_compiled
    view,       \* the DatabaseConnectionViews, by session
    raised,     \* what the last call raised ("none" when it returned)
    seen,       \* history: every value db.dbver has had
    pre,        \* history: config/modaliases when the session last entered a transaction
    ddlver,     \* history: dbver after the last DDL that succeeded outside a transaction
    \* DatabaseIndex.new_view, statement by statement
    dbs,        \* DatabaseIndex._dbs: database name -> Database (0: no entry)
    insts,      \* the Databases made so far: insts[i] is the name of Database i
    pc,         \* where each caller of new_view is
    arg,        \* new_view's dbname, by caller
    local,      \* new_view's local db, by caller (0: unbound)
    bound,      \* the Database of the view new_view returned, by caller (0: none yet)
    \* compile_FunctionCall
    call,       \* the call and what the catalog and the type inference answer for it
    fpc,        \* where compile_FunctionCall is
    arg_types,  \* process_func_args' arg_types so far
    nchecked,   \* the overloads check_function has rejected so far
    result,     \* the error raised, and the overload selected (0: none)
    \* Document.reduce_Definitions
    defs,       \* kid.val: the definitions of the document
    di,         \* the definitions the loop has been through
    short,      \* the position of the shorthand operation found (0: None)
    opnames,
    fragnames,
    outcome,    \* "parsing", "reducing", "Document", or the error raised
    \* the reductions of the parser before Document.reduce_Definitions
    pending,    \* the VariableList reduced for the operation being parsed (<<>>: None)
    rejected,   \* the names of the list whose reduction raised (<<>>: none has)
    dup,        \* the position in rejected of the node the error was raised from
    listdup,    \* history: a list with a repeated name has been reduced
    vartype     \* the VarType derived so far: its tokens and its VariableType

dbvars == <<now, db, view, raised, seen, pre, ddlver>>
idxvars == <<dbs, insts, pc, arg, local, bound>>
fnvars == <<call, fpc, arg_types, nchecked, result>>
docvars == <<defs, di, short, opnames, fragnames, outcome, pending, rejected, dup, listdup, vartype>>
vars == <<dbvars, idxvars, fnvars, docvars>>

(***************************************************************************)
(* Bounds                                                                  *)
(***************************************************************************)
MaxClock == 1
MAX_QUERIES_CACHE == 1
MaxOverloads == 2
MaxArgs == 3
MaxDefs == 3

Sessions == {"s1", "s2"}
Callers == {"c1", "c2", "c3"}
DbNames == {"main", "test"}
Eqls == {"q1"}
JsonModes == {FALSE}

(***************************************************************************)
(* Values.  Python's None is "None"; an immutables.Map is a string, the    *)
(* empty Map "{}".  Truthy is Python's truth value of these.               *)
(***************************************************************************)
None == "None"
EmptyMap == "{}"
DefaultAliases == "{None: 'default'}"
Configs == {EmptyMap, "{cfg: 1}"}
ModAliases == {DefaultAliases, "{None: 'm1'}"}
Txids == {"tx1"}

Truthy(x) == x \notin {None, EmptyMap}

(***************************************************************************)
(* lru.LRUMapping(maxsize): an ordered mapping, least recently used first. *)
(* A mapping is a sequence of [key, val] records with distinct keys.       *)
(***************************************************************************)
LruIndex(m, key) ==
    IF \E i \in 1..Len(m) : m[i].key = key
    THEN CHOOSE i \in 1..Len(m) : m[i].key = key
    ELSE 0

LruRemove(m, i) == SubSeq(m, 1, i - 1) \o SubSeq(m, i + 1, Len(m))

\* m.get(key): the value, in a one-element sequence, or <<>> for None.
LruGet(m, key) ==
    IF LruIndex(m, key) = 0 THEN <<>> ELSE <<m[LruIndex(m, key)].val>>

\* The mapping after m.get(key): a hit moves the key to the most recent end.
LruTouch(m, key) ==
    IF LruIndex(m, key) = 0 THEN m
    ELSE Append(LruRemove(m, LruIndex(m, key)), m[LruIndex(m, key)])

\* m[key] = val: the key becomes the most recent; over maxsize the least
\* recently used entry is dropped.
LruPut(m, key, val) ==
    LET e == [key |-> key, val |-> val]
        put == IF LruIndex(m, key) = 0 THEN Append(m, e)
               ELSE Append(LruRemove(m, LruIndex(m, key)), e)
    IN IF Len(put) > MAX_QUERIES_CACHE THEN Tail(put) ELSE put

(***************************************************************************)
(* dbstate.QueryUnit, as start/on_success/on_error read it.                *)
(***************************************************************************)
QueryUnit(starts, commits, rollbacks, sp_rollbacks, ddl, config, modaliases, txid) ==
    [starts_tx |-> starts, commits_tx |-> commits, rollbacks_tx |-> rollbacks,
     savepoint_rollbacks |-> sp_rollbacks, has_ddl |-> ddl,
     config |-> config, modaliases |-> modaliases, txid |-> txid]

\* Units that carry neither a config nor a module-alias delta: a plain
\* statement or DDL, START TRANSACTION (with or without a txid), COMMIT,
\* ROLLBACK, ROLLBACK TO SAVEPOINT.
PlainUnits ==
    {QueryUnit(FALSE, c, r, p, d, None, None, None) :
        <<c, r, p, d>> \in {<<FALSE, FALSE, FALSE, FALSE>>, <<FALSE, FALSE, FALSE, TRUE>>,
                            <<TRUE, FALSE, FALSE, FALSE>>, <<TRUE, FALSE, FALSE, TRUE>>,
                            <<FALSE, TRUE, FALSE, FALSE>>, <<FALSE, TRUE, FALSE, TRUE>>,
                            <<FALSE, FALSE, TRUE, FALSE>>, <<FALSE, FALSE, TRUE, TRUE>>}}
    \cup {QueryUnit(TRUE, FALSE, FALSE, FALSE, d, None, None, t) :
            d \in BOOLEAN, t \in Txids \cup {None}}

\* Units that carry a config and/or module-alias delta (an empty Map is a
\* delta the compiler can produce): a SET statement, or a ROLLBACK or
\* ROLLBACK TO SAVEPOINT that brings the values to install.
DeltaUnits ==
    {QueryUnit(FALSE, FALSE, r, p, FALSE, cfg, al, None) :
        <<r, p>> \in {<<FALSE, FALSE>>, <<TRUE, FALSE>>, <<FALSE, TRUE>>},
        cfg \in Configs \cup {None}, al \in ModAliases \cup {None}}

Units == PlainUnits \cup DeltaUnits

\* on_error does not read its unit.
AnyUnit == QueryUnit(FALSE, FALSE, FALSE, FALSE, FALSE, None, None, None)

\* A preparable compiled unit, as the caches hold it: its dbver stamp.
CompiledUnit(ver) == [dbver |-> ver]

(***************************************************************************)
(* class Database                                                          *)
(***************************************************************************)
\* Database.__init__
Database(t) == [dbver |-> t, eql_to_compiled |-> <<>>]

\* Database._invalidate_caches
_invalidate_caches(d) == [d EXCEPT !.eql_to_compiled = <<>>]

\* Database._signal_ddl, when the clock reads t
_signal_ddl(d, t) == _invalidate_caches([d EXCEPT !.dbver = t])

\* Database._cache_compiled_query
_cache_compiled_query(d, key, compiled) ==
    LET existing == LruGet(d.eql_to_compiled, key)
        got == [d EXCEPT !.eql_to_compiled = LruTouch(@, key)]
    IN IF existing # <<>> /\ existing[1].dbver > compiled.dbver
       THEN got
       ELSE [got EXCEPT !.eql_to_compiled = LruPut(@, key, compiled)]

(***************************************************************************)
(* class DatabaseConnectionView                                            *)
(***************************************************************************)
_invalidate_local_cache(v) == [v EXCEPT !.eql_to_compiled = <<>>]

_reset_tx_state(v) ==
    _invalidate_local_cache(
        [v EXCEPT !.txid = None, !.in_tx = FALSE, !.in_tx_with_ddl = FALSE,
                  !.tx_error = FALSE,
                  !.config_before_tx = v.config,
                  !.modaliases_before_tx = v.modaliases])

\* DatabaseConnectionView.__init__
DatabaseConnectionView ==
    _reset_tx_state(
        [config |-> EmptyMap, modaliases |-> DefaultAliases,
         eql_to_compiled |-> <<>>,
         txid |-> None, in_tx |-> FALSE, in_tx_with_ddl |-> FALSE,
         tx_error |-> FALSE,
         config_before_tx |-> EmptyMap, modaliases_before_tx |-> DefaultAliases])

\* Mutant: abort_tx that resets the transaction state and restores nothing.
abort_tx_no_restore(v) == _reset_tx_state(v)

\* abort_tx, when in a transaction (it raises otherwise)
abort_tx(v) ==
    _reset_tx_state([v EXCEPT !.config = v.config_before_tx,
                              !.modaliases = v.modaliases_before_tx])

rollback(v) == _reset_tx_state(v)

\* The cache key of both cache methods.
CacheKey(v, eql, json_mode) ==
    [eql |-> eql, json_mode |-> json_mode,
     modaliases |-> v.modaliases, config |-> v.config]

\* cache_compiled_query: the view and the database after the call.
cache_compiled_query(v, d, eql, json_mode, compiled) ==
    LET key == CacheKey(v, eql, json_mode)
    IN IF v.in_tx_with_ddl
       THEN [view |-> [v EXCEPT !.eql_to_compiled = LruPut(@, key, compiled)],
             db |-> d]
       ELSE [view |-> v, db |-> _cache_compiled_query(d, key, compiled)]

\* Mutant: lookup_compiled_query without the dbver comparison of line 169.
lookup_no_dbver_check(v, d, eql, json_mode) ==
    LET key == CacheKey(v, eql, json_mode)
    IN IF v.tx_error THEN <<>>
       ELSE IF v.in_tx_with_ddl THEN LruGet(v.eql_to_compiled, key)
       ELSE LruGet(d.eql_to_compiled, key)

\* lookup_compiled_query: what the call returns, <<>> for None.
lookup_compiled_query(v, d, eql, json_mode) ==
    LET key == CacheKey(v, eql, json_mode)
    IN IF v.tx_error THEN <<>>
       ELSE IF v.in_tx_with_ddl THEN LruGet(v.eql_to_compiled, key)
       ELSE LET compiled == LruGet(d.eql_to_compiled, key)
            IN IF compiled # <<>> /\ compiled[1].dbver # d.dbver
               THEN <<>>
               ELSE compiled

\* lookup_compiled_query: the caches after the call (a get refreshes the key).
lookup_touch(v, d, eql, json_mode) ==
    LET key == CacheKey(v, eql, json_mode)
    IN IF v.tx_error THEN [view |-> v, db |-> d]
       ELSE IF v.in_tx_with_ddl
       THEN [view |-> [v EXCEPT !.eql_to_compiled = LruTouch(@, key)], db |-> d]
       ELSE [view |-> v, db |-> [d EXCEPT !.eql_to_compiled = LruTouch(@, key)]]

\* tx_error()
tx_error(v) == IF v.in_tx THEN [v EXCEPT !.tx_error = TRUE] ELSE v

\* Mutant: start that clears tx_error for every unit instead of raising.
start_never_gated(v, qu) ==
    LET v1 == [v EXCEPT !.tx_error = FALSE]
        v2 == IF qu.starts_tx
              THEN [v1 EXCEPT !.in_tx = TRUE, !.txid = qu.txid]
              ELSE v1
    IN IF v2.in_tx /\ ~Truthy(v2.txid)
       THEN [view |-> v2, raised |-> "InternalServerError"]
       ELSE [view |-> IF v2.in_tx /\ qu.has_ddl
                      THEN [v2 EXCEPT !.in_tx_with_ddl = TRUE]
                      ELSE v2,
             raised |-> "none"]

\* start(qu): the view after the call and what the call raised.
start(v, qu) ==
    IF v.tx_error /\ ~(qu.savepoint_rollbacks \/ qu.rollbacks_tx)
    THEN [view |-> v, raised |-> "TransactionError"]
    ELSE LET v1 == [v EXCEPT !.tx_error = FALSE]
             v2 == IF qu.starts_tx
                   THEN [v1 EXCEPT !.in_tx = TRUE, !.txid = qu.txid]
                   ELSE v1
         IN IF v2.in_tx /\ ~Truthy(v2.txid)
            THEN [view |-> v2, raised |-> "InternalServerError"]
            ELSE [view |-> IF v2.in_tx /\ qu.has_ddl
                           THEN [v2 EXCEPT !.in_tx_with_ddl = TRUE]
                           ELSE v2,
                  raised |-> "none"]

on_error(v, qu) == tx_error(v)

\* on_success(qu), lines 200-210: the caches, the DDL signal outside a
\* transaction, the config and module-alias deltas.
on_success_deltas(v, d, qu, t) ==
    LET v1 == IF qu.has_ddl \/ (v.in_tx_with_ddl /\ qu.savepoint_rollbacks)
              THEN _invalidate_local_cache(v) ELSE v
        d1 == IF ~v1.in_tx /\ qu.has_ddl THEN _signal_ddl(d, t) ELSE d
        v2 == IF Truthy(qu.config) THEN [v1 EXCEPT !.config = qu.config] ELSE v1
        v3 == IF Truthy(qu.modaliases)
              THEN [v2 EXCEPT !.modaliases = qu.modaliases] ELSE v2
    IN [view |-> v3, db |-> d1]

\* The assertions of on_success (lines 213, 219-221): a caller that breaks
\* one has corrupted the session, which is then closed.
on_success_asserts(v, d, qu, t) ==
    LET v3 == on_success_deltas(v, d, qu, t).view
    IN IF qu.commits_tx THEN v3.in_tx
       ELSE IF qu.rollbacks_tx
       THEN /\ v3.in_tx
            /\ v3.config = v3.config_before_tx
            /\ v3.modaliases = v3.modaliases_before_tx
       ELSE TRUE

\* Mutant: on_success without the re-snapshot of lines 224-226.
on_success_no_snapshot(v) == v

\* on_success(qu), lines 224-226
on_success_snapshot(v) ==
    IF ~v.in_tx
    THEN [v EXCEPT !.config_before_tx = v.config,
                   !.modaliases_before_tx = v.modaliases]
    ELSE v

\* on_success(qu): the view and the database after the call.
on_success(v, d, qu, t) ==
    LET s3 == on_success_deltas(v, d, qu, t)
        s4 == IF qu.commits_tx
              THEN [view |-> _reset_tx_state(s3.view),
                    db |-> IF s3.view.in_tx_with_ddl
                           THEN _signal_ddl(s3.db, t) ELSE s3.db]
              ELSE IF qu.rollbacks_tx
              THEN [view |-> _reset_tx_state(s3.view), db |-> s3.db]
              ELSE s3
    IN [view |-> on_success_snapshot(s4.view), db |-> s4.db]

(***************************************************************************)
(* The sessions of one database as a state machine.  Every method call is  *)
(* one step: the methods are synchronous and a view has one caller.        *)
(***************************************************************************)
\* The state of a component that is not running.
IdleDb ==
    /\ now = 0
    /\ db = Database(0)
    /\ view = [s \in Sessions |-> DatabaseConnectionView]
    /\ raised = "none"
    /\ seen = {0}
    /\ pre = [s \in Sessions |-> [config |-> EmptyMap, modaliases |-> DefaultAliases]]
    /\ ddlver = -1

IdleIndex ==
    /\ dbs = [n \in DbNames |-> 0]
    /\ insts = <<>>
    /\ pc = [c \in Callers |-> "idle"]
    /\ arg = [c \in Callers |-> "main"]
    /\ local = [c \in Callers |-> 0]
    /\ bound = [c \in Callers |-> 0]

IdleFunc ==
    /\ call = [found |-> FALSE, funcs |-> <<>>, args |-> <<>>, agg_set_modifier |-> "AggNONE"]
    /\ fpc = "resolve"
    /\ arg_types = <<>>
    /\ nchecked = 0
    /\ result = [error |-> "none", func |-> 0]

\* No VarType has been derived.
NoVarType == [tokens |-> <<>>, val |-> None]

IdleDoc ==
    /\ defs = <<>>
    /\ di = 0
    /\ short = 0
    /\ opnames = {}
    /\ fragnames = {}
    /\ outcome = "reducing"
    /\ pending = <<>>
    /\ rejected = <<>>
    /\ dup = 0
    /\ listdup = FALSE
    /\ vartype = NoVarType

InitDb ==
    /\ IdleIndex /\ IdleFunc /\ IdleDoc
    /\ now = 0
    /\ db = Database(0)
    /\ view = [s \in Sessions |-> DatabaseConnectionView]
    /\ raised = "none"
    /\ seen = {0}
    /\ pre = [s \in Sessions |-> [config |-> EmptyMap, modaliases |-> DefaultAliases]]
    /\ ddlver = -1

\* The monotonic clock moves on; two readings with no Tick between are equal.
Tick ==
    /\ now < MaxClock
    /\ now' = now + 1
    /\ UNCHANGED <<db, view, raised, seen, pre, ddlver>>
    /\ UNCHANGED <<idxvars, fnvars, docvars>>

Start(s, qu) ==
    LET r == start(view[s], qu)
    IN /\ view' = [view EXCEPT ![s] = r.view]
       /\ raised' = r.raised
       /\ pre' = IF ~view[s].in_tx /\ r.view.in_tx
                 THEN [pre EXCEPT ![s] = [config |-> view[s].config,
                                          modaliases |-> view[s].modaliases]]
                 ELSE pre
       /\ UNCHANGED <<now, db, seen, ddlver>>
       /\ UNCHANGED <<idxvars, fnvars, docvars>>

OnError(s, qu) ==
    /\ view' = [view EXCEPT ![s] = on_error(view[s], qu)]
    /\ raised' = "none"
    /\ UNCHANGED <<now, db, seen, pre, ddlver>>
    /\ UNCHANGED <<idxvars, fnvars, docvars>>

\* track: whether the specification records ddlver.
OnSuccess(s, qu, track) ==
    LET r == on_success(view[s], db, qu, now)
    IN /\ on_success_asserts(view[s], db, qu, now)
       /\ view' = [view EXCEPT ![s] = r.view]
       /\ db' = r.db
       /\ seen' = seen \cup {r.db.dbver}
       /\ ddlver' = IF track /\ ~view[s].in_tx /\ qu.has_ddl THEN r.db.dbver ELSE ddlver
       /\ raised' = "none"
       /\ UNCHANGED <<now, pre>>
       /\ UNCHANGED <<idxvars, fnvars, docvars>>

AbortTx(s) ==
    /\ IF view[s].in_tx
       THEN view' = [view EXCEPT ![s] = abort_tx(view[s])] /\ raised' = "none"
       ELSE view' = view /\ raised' = "InternalServerError"
    /\ UNCHANGED <<now, db, seen, pre, ddlver>>
    /\ UNCHANGED <<idxvars, fnvars, docvars>>

Rollback(s) ==
    /\ view' = [view EXCEPT ![s] = rollback(view[s])]
    /\ raised' = "none"
    /\ UNCHANGED <<now, db, seen, pre, ddlver>>
    /\ UNCHANGED <<idxvars, fnvars, docvars>>

CacheCompiledQuery(s, eql, json_mode, compiled) ==
    LET r == cache_compiled_query(view[s], db, eql, json_mode, compiled)
    IN /\ view' = [view EXCEPT ![s] = r.view]
       /\ db' = r.db
       /\ raised' = "none"
       /\ UNCHANGED <<now, seen, pre, ddlver>>
       /\ UNCHANGED <<idxvars, fnvars, docvars>>

LookupCompiledQuery(s, eql, json_mode) ==
    LET r == lookup_touch(view[s], db, eql, json_mode)
    IN /\ view' = [view EXCEPT ![s] = r.view]
       /\ db' = r.db
       /\ raised' = "none"
       /\ UNCHANGED <<now, seen, pre, ddlver>>
       /\ UNCHANGED <<idxvars, fnvars, docvars>>

\* One connection, every unit.  With no other connection, nothing advances
\* the database's version between the compilation of a unit and its caching.
\* start reads neither config nor modaliases of its unit, so the units
\* without deltas are all the units start tells apart.
NextView ==
    \/ Tick
    \/ \E qu \in PlainUnits : Start("s1", qu)
    \/ OnError("s1", AnyUnit)
    \/ \E qu \in Units : OnSuccess("s1", qu, FALSE)
    \/ AbortTx("s1")
    \/ Rollback("s1")
    \/ \E eql \in Eqls, json_mode \in JsonModes :
            CacheCompiledQuery("s1", eql, json_mode, CompiledUnit(db.dbver))
    \/ \E eql \in Eqls, json_mode \in JsonModes :
            LookupCompiledQuery("s1", eql, json_mode)

SpecView == InitDb /\ [][NextView]_vars

\* Every connection of the database, the units without deltas.  A unit was
\* compiled when the database had one of the versions in seen.
NextDb ==
    \/ Tick
    \/ \E s \in Sessions, qu \in PlainUnits : Start(s, qu)
    \/ \E s \in Sessions : OnError(s, AnyUnit)
    \/ \E s \in Sessions, qu \in PlainUnits : OnSuccess(s, qu, TRUE)
    \/ \E s \in Sessions : AbortTx(s)
    \/ \E s \in Sessions : Rollback(s)
    \/ \E s \in Sessions, eql \in Eqls, json_mode \in JsonModes, ver \in seen :
            CacheCompiledQuery(s, eql, json_mode, CompiledUnit(ver))
    \/ \E s \in Sessions, eql \in Eqls, json_mode \in JsonModes :
            LookupCompiledQuery(s, eql, json_mode)

SpecDb == InitDb /\ [][NextDb]_vars

(***************************************************************************)
(* Claims about the sessions of one database                               *)
(***************************************************************************)
Lookup(s, eql, json_mode) == lookup_compiled_query(view[s], db, eql, json_mode)
LookupNext(s, eql, json_mode) == lookup_compiled_query(view'[s], db', eql, json_mode)
SharedEntry(s, eql, json_mode) ==
    LruGet(db.eql_to_compiled, CacheKey(view[s], eql, json_mode))

\* C1: a lookup served from the shared cache (the session is not in a DDL
\* transaction) returns no unit whose dbver differs from the database's
\* dbver; and right after a step that changed the database's dbver, every
\* such lookup returns None, whatever was cached before.
C1_SharedHitIsCurrent ==
    /\ [](\A s \in Sessions, eql \in Eqls, json_mode \in JsonModes :
            (~view[s].in_tx_with_ddl /\ Lookup(s, eql, json_mode) # <<>>)
                => Lookup(s, eql, json_mode)[1].dbver = db.dbver)
    /\ [][db'.dbver # db.dbver =>
            \A s \in Sessions, eql \in Eqls, json_mode \in JsonModes :
                ~view'[s].in_tx_with_ddl => LookupNext(s, eql, json_mode) = <<>>]_vars

\* A unit compiled before a DDL advanced dbver has been cached again after
\* it, and the lookup of its key returns None.
C1_Witness ==
    \E s \in Sessions, eql \in Eqls, json_mode \in JsonModes :
        /\ ~view[s].in_tx_with_ddl /\ ~view[s].tx_error
        /\ SharedEntry(s, eql, json_mode) # <<>>
        /\ SharedEntry(s, eql, json_mode)[1].dbver < db.dbver
        /\ Lookup(s, eql, json_mode) = <<>>

\* A call of session s other than on_success.
OtherCall(s) ==
    \/ \E qu \in PlainUnits : Start(s, qu)
    \/ OnError(s, AnyUnit)
    \/ \E eql \in Eqls, json_mode \in JsonModes, ver \in seen :
            CacheCompiledQuery(s, eql, json_mode, CompiledUnit(ver))
    \/ \E eql \in Eqls, json_mode \in JsonModes : LookupCompiledQuery(s, eql, json_mode)

\* From the start of a DDL unit inside a transaction to the commit, no call
\* of the session changes the database's dbver or its shared cache, and what
\* another session's lookup returned it still returns.
C2_Isolated ==
    \A s \in Sessions :
        (/\ view[s].in_tx_with_ddl
         /\ \/ OtherCall(s)
            \/ AbortTx(s)
            \/ Rollback(s)
            \/ \E qu \in PlainUnits : ~qu.commits_tx /\ OnSuccess(s, qu, TRUE))
        => /\ db' = db
           /\ \A o \in Sessions \ {s}, eql \in Eqls, json_mode \in JsonModes :
                LookupNext(o, eql, json_mode) = Lookup(o, eql, json_mode)

\* on_success of the committing unit advances dbver and clears the shared cache.
C2_CommitAdvances ==
    \A s \in Sessions, qu \in PlainUnits :
        (view[s].in_tx_with_ddl /\ qu.commits_tx /\ OnSuccess(s, qu, TRUE))
        => /\ db'.dbver > db.dbver
           /\ db'.eql_to_compiled = <<>>

\* Ending the transaction by rollback or abort_tx never advances dbver.
C2_RollbackKeeps ==
    \A s \in Sessions :
        (/\ view[s].in_tx
         /\ \/ AbortTx(s)
            \/ Rollback(s)
            \/ \E qu \in PlainUnits : qu.rollbacks_tx /\ OnSuccess(s, qu, TRUE))
        => db'.dbver = db.dbver

\* C2: DDL inside an open transaction is invisible to the other sessions
\* until the commit: no call of the session in between changes the
\* database's dbver or the shared cache; on_success of the committing unit
\* advances dbver and clears the shared cache; rollback and abort_tx never
\* advance dbver.
C2_DdlTxIsolation ==
    [][C2_Isolated /\ C2_CommitAdvances /\ C2_RollbackKeeps]_vars

\* C2 without the advance of dbver at the commit: what holds of it.
C2_IsolationAndRollback == [][C2_Isolated /\ C2_RollbackKeeps]_vars

\* C3: while a session's tx_error is set, every lookup returns None; start
\* of a unit that is neither a rollback nor a savepoint rollback raises
\* TransactionError and leaves every field of the view as it was; start of a
\* rollback or savepoint rollback clears tx_error and raises no
\* TransactionError.
C3_TxErrorGating ==
    \A s \in Sessions :
        view[s].tx_error =>
            /\ \A eql \in Eqls, json_mode \in JsonModes :
                    Lookup(s, eql, json_mode) = <<>>
            /\ \A qu \in Units :
                    IF qu.rollbacks_tx \/ qu.savepoint_rollbacks
                    THEN /\ ~start(view[s], qu).view.tx_error
                         /\ start(view[s], qu).raised # "TransactionError"
                    ELSE start(view[s], qu) =
                            [view |-> view[s], raised |-> "TransactionError"]

\* A start was refused with TransactionError while the local cache of the
\* poisoned transaction holds the unit a lookup asks for.
C3_Witness ==
    \E s \in Sessions, eql \in Eqls, json_mode \in JsonModes :
        /\ view[s].tx_error
        /\ raised = "TransactionError"
        /\ view[s].in_tx_with_ddl
        /\ LruGet(view[s].eql_to_compiled, CacheKey(view[s], eql, json_mode)) # <<>>

C5_DbverStrictlyIncreases ==
    [][\A s \in Sessions, qu \in PlainUnits :
        (/\ ~view[s].in_tx /\ qu.has_ddl /\ ddlver # -1
         /\ OnSuccess(s, qu, TRUE))
        => db'.dbver > ddlver]_vars

\* What holds instead: dbver never decreases.
C5_DbverNeverDecreases == [][db'.dbver >= db.dbver]_vars

(***************************************************************************)
(* class DatabaseIndex.  new_view takes no lock, so the statements of two  *)
(* calls may interleave; each statement is one step.                       *)
(***************************************************************************)
\* A caller enters new_view(dbname).
NewView(c, dbname) ==
    /\ pc[c] = "idle"
    /\ pc' = [pc EXCEPT ![c] = "try"]
    /\ arg' = [arg EXCEPT ![c] = dbname]
    /\ UNCHANGED <<dbs, insts, local, bound>>
    /\ UNCHANGED <<dbvars, fnvars, docvars>>

\* Line 242: db = self._dbs[dbname], or KeyError.
TryLookup(c) ==
    /\ pc[c] = "try"
    /\ IF dbs[arg[c]] # 0
       THEN local' = [local EXCEPT ![c] = dbs[arg[c]]] /\ pc' = [pc EXCEPT ![c] = "return"]
       ELSE local' = local /\ pc' = [pc EXCEPT ![c] = "create"]
    /\ UNCHANGED <<dbs, insts, arg, bound>>
    /\ UNCHANGED <<dbvars, fnvars, docvars>>

\* Line 244: db = Database(dbname).
CreateDatabase(c) ==
    /\ pc[c] = "create"
    /\ insts' = Append(insts, arg[c])
    /\ local' = [local EXCEPT ![c] = Len(insts) + 1]
    /\ pc' = [pc EXCEPT ![c] = "store"]
    /\ UNCHANGED <<dbs, arg, bound>>
    /\ UNCHANGED <<dbvars, fnvars, docvars>>

\* Line 245: self._dbs[dbname] = db.
StoreDatabase(c) ==
    /\ pc[c] = "store"
    /\ dbs' = [dbs EXCEPT ![arg[c]] = local[c]]
    /\ pc' = [pc EXCEPT ![c] = "return"]
    /\ UNCHANGED <<insts, arg, local, bound>>
    /\ UNCHANGED <<dbvars, fnvars, docvars>>

\* Line 247: return db._new_view(user=user).
ReturnView(c) ==
    /\ pc[c] = "return"
    /\ bound' = [bound EXCEPT ![c] = local[c]]
    /\ pc' = [pc EXCEPT ![c] = "done"]
    /\ UNCHANGED <<dbs, insts, arg, local>>
    /\ UNCHANGED <<dbvars, fnvars, docvars>>

InitIndex == IdleDb /\ IdleIndex /\ IdleFunc /\ IdleDoc

NextIndex ==
    \E c \in Callers :
        \/ \E dbname \in DbNames : NewView(c, dbname)
        \/ TryLookup(c)
        \/ CreateDatabase(c)
        \/ StoreDatabase(c)
        \/ ReturnView(c)

SpecIndex == InitIndex /\ [][NextIndex]_vars

\* C7: two views new_view returned for the same database name are bound to
\* the same Database.
C7_OneDatabasePerName ==
    \A c1, c2 \in Callers :
        (pc[c1] = "done" /\ pc[c2] = "done" /\ arg[c1] = arg[c2])
            => bound[c1] = bound[c2]

(***************************************************************************)
(* compile_FunctionCall and check_function (edgeql/compiler/func.py)       *)
(***************************************************************************)
\* The types of the schema: "int" is a subclass of "num".
Types == {"int", "num"}
issubclass(a, b) == a = b \/ <<a, b>> = <<"int", "num">>

\* s_func.Function, as the compiler reads it; varparam is 1-based, 0 for None;
\* a parameter default is None or the default's text.
Function(paramtypes, paramdefaults, varparam, aggregate) ==
    [paramtypes |-> paramtypes, paramdefaults |-> paramdefaults,
     varparam |-> varparam, aggregate |-> aggregate]

\* The overloads the catalog's overload sets are made of.
Overloads ==
    { Function(<<>>, <<>>, 0, FALSE),                                    \* f()
      Function(<<"int">>, <<None>>, 0, FALSE),                           \* f(int)
      Function(<<"int", "int">>, <<None, None>>, 2, FALSE),              \* f(int, int...)
      Function(<<"num", "int">>, <<None, "0">>, 0, FALSE),               \* f(num, int = 0)
      Function(<<"int">>, <<"0">>, 0, FALSE),                            \* f(int = 0)
      Function(<<"num">>, <<None>>, 1, TRUE),                            \* agg(num...)
      Function(<<"int", "int">>, <<None, None>>, 0, TRUE) }              \* agg(int, int)

SeqsUpTo(S, n) == UNION {[1..k -> S] : k \in 0..n}

AggModifiers == {"AggNONE", "AggALL", "AggDISTINCT"}

\* Mutant: is_agg that asks every overload to be an aggregate.
is_agg_every(funcs) ==
    funcs # <<>> /\ \A i \in 1..Len(funcs) : funcs[i].aggregate

\* Line 50: is_agg = any(f.aggregate for f in funcs)
is_agg(funcs) == \E i \in 1..Len(funcs) : funcs[i].aggregate

Max(a, b) == IF a >= b THEN a ELSE b
Min(a, b) == IF a <= b THEN a ELSE b

\* The loop of check_function over zip_longest(func.paramtypes, arg_types),
\* from pair i on: "True", "False", or the AttributeError of None.issubclass.
RECURSIVE check_pairs(_, _, _)
check_pairs(func, types, i) ==
    IF i > Max(Len(func.paramtypes), Len(types)) THEN "True"
    ELSE LET pt0 == IF i <= Len(func.paramtypes) THEN func.paramtypes[i] ELSE None
             at == IF i <= Len(types) THEN types[i] ELSE None
         IN IF pt0 = None /\ func.varparam = 0 THEN "False"
            ELSE LET pt == IF pt0 = None THEN func.paramtypes[func.varparam] ELSE pt0
                 IN IF at = None THEN "AttributeError"
                    ELSE IF ~issubclass(at, pt) THEN "False"
                    ELSE check_pairs(func, types, i + 1)

check_function(func, types) ==
    IF func.paramtypes = <<>>
    THEN (IF types = <<>> THEN "True" ELSE "False")
    ELSE IF types = <<>>
    THEN (IF \E pi \in 1..Len(func.paramdefaults) :
                func.paramdefaults[pi] = None /\ pi # func.varparam
          THEN "False" ELSE "True")
    ELSE check_pairs(func, types, 1)

InitFunc ==
    /\ IdleDb /\ IdleIndex /\ IdleDoc
    /\ call \in
        {[found |-> FALSE, funcs |-> <<>>, args |-> a, agg_set_modifier |-> m] :
            a \in SeqsUpTo(Types \cup {None}, MaxArgs), m \in AggModifiers}
        \cup
        {[found |-> TRUE, funcs |-> f, args |-> a, agg_set_modifier |-> m] :
            f \in SeqsUpTo(Overloads, MaxOverloads),
            a \in SeqsUpTo(Types \cup {None}, MaxArgs), m \in AggModifiers}
    /\ fpc = "resolve"
    /\ arg_types = <<>>
    /\ nchecked = 0
    /\ result = [error |-> "none", func |-> 0]

Raise(error) ==
    /\ result' = [error |-> error, func |-> 0]
    /\ fpc' = "done"

\* Lines 40-46: the catalog's answer, None for an unknown name.
ResolveFunction ==
    /\ fpc = "resolve"
    /\ IF ~call.found
       THEN Raise("could not resolve function name")
       ELSE fpc' = "modifier" /\ result' = result
    /\ UNCHANGED <<call, arg_types, nchecked>>
    /\ UNCHANGED <<dbvars, idxvars, docvars>>

\* Lines 50-58
CheckModifier ==
    /\ fpc = "modifier"
    /\ IF is_agg(call.funcs) /\ call.agg_set_modifier = "AggNONE"
       THEN Raise("missing a required modifier")
       ELSE fpc' = "args" /\ result' = result
    /\ UNCHANGED <<call, arg_types, nchecked>>
    /\ UNCHANGED <<dbvars, idxvars, docvars>>

\* process_func_args, one argument: it is compiled and its type inferred.
ProcessArg ==
    /\ fpc = "args"
    /\ Len(arg_types) < Len(call.args)
    /\ LET arg_type == call.args[Len(arg_types) + 1]
       IN IF arg_type = None
          THEN Raise("could not resolve the type of argument") /\ arg_types' = arg_types
          ELSE arg_types' = Append(arg_types, arg_type) /\ fpc' = fpc /\ result' = result
    /\ UNCHANGED <<call, nchecked>>
    /\ UNCHANGED <<dbvars, idxvars, docvars>>

\* process_func_args returns.
ArgsDone ==
    /\ fpc = "args"
    /\ Len(arg_types) = Len(call.args)
    /\ fpc' = "match"
    /\ UNCHANGED <<call, arg_types, nchecked, result>>
    /\ UNCHANGED <<dbvars, idxvars, docvars>>

\* Lines 117-123, one turn of the loop over funcs (or its else clause).
CheckOverload ==
    /\ fpc = "match"
    /\ IF nchecked = Len(call.funcs)
       THEN Raise("could not find a function variant") /\ nchecked' = nchecked
       ELSE LET verdict == check_function(call.funcs[nchecked + 1], arg_types)
            IN CASE verdict = "True" ->
                        /\ result' = [error |-> "none", func |-> nchecked + 1]
                        /\ fpc' = "done"
                        /\ nchecked' = nchecked
                 [] verdict = "False" ->
                        /\ nchecked' = nchecked + 1
                        /\ fpc' = fpc /\ result' = result
                 [] OTHER ->
                        /\ Raise(verdict)
                        /\ nchecked' = nchecked
    /\ UNCHANGED <<call, arg_types>>
    /\ UNCHANGED <<dbvars, idxvars, docvars>>

NextFunc ==
    \/ ResolveFunction
    \/ CheckModifier
    \/ ProcessArg
    \/ ArgsDone
    \/ CheckOverload

SpecFunc == InitFunc /\ [][NextFunc]_vars

\* The overloads a call with these argument types is said to match.
Accepted(func, types) ==
    IF func.paramtypes = <<>> THEN types = <<>>
    ELSE IF types = <<>>
    THEN \A i \in 1..Len(func.paramtypes) :
            func.paramdefaults[i] # None \/ i = func.varparam
    ELSE /\ \A i \in 1..Min(Len(func.paramtypes), Len(types)) :
                issubclass(types[i], func.paramtypes[i])
         /\ Len(types) > Len(func.paramtypes) =>
                /\ func.varparam # 0
                /\ \A i \in (Len(func.paramtypes) + 1)..Len(types) :
                        issubclass(types[i], func.paramtypes[func.varparam])

FirstAccepted(funcs, types) ==
    IF \E i \in 1..Len(funcs) : Accepted(funcs[i], types)
    THEN CHOOSE i \in 1..Len(funcs) :
            /\ Accepted(funcs[i], types)
            /\ \A j \in 1..(i - 1) : ~Accepted(funcs[j], types)
    ELSE 0

\* The call got as far as the matching of the overloads.
Matched ==
    /\ fpc = "done"
    /\ result.error \notin {"could not resolve function name",
                            "missing a required modifier",
                            "could not resolve the type of argument"}

\* C8: compile_FunctionCall selects the first overload, in catalog order,
\* that the argument types match, and fails with 'could not find a function
\* variant' when none does.
C8_FirstAcceptedOverload ==
    Matched =>
        IF FirstAccepted(call.funcs, call.args) # 0
        THEN result = [error |-> "none", func |-> FirstAccepted(call.funcs, call.args)]
        ELSE result = [error |-> "could not find a function variant", func |-> 0]

\* C8 where check_function gave a verdict for every overload it was asked about.
C8_WhenCheckFunctionReturns ==
    (Matched /\ result.error # "AttributeError") =>
        IF FirstAccepted(call.funcs, call.args) # 0
        THEN result = [error |-> "none", func |-> FirstAccepted(call.funcs, call.args)]
        ELSE result = [error |-> "could not find a function variant", func |-> 0]

\* C9: with an aggregate among the overloads and no ALL or DISTINCT, the call
\* fails with the missing-modifier error before any argument is compiled and
\* before any overload is matched; with ALL or DISTINCT it never fails so.
C9_AggregateNeedsModifier ==
    /\ (call.found /\ call.agg_set_modifier = "AggNONE"
            /\ \E i \in 1..Len(call.funcs) : call.funcs[i].aggregate)
        => /\ arg_types = <<>> /\ nchecked = 0 /\ fpc \in {"resolve", "modifier", "done"}
           /\ fpc = "done" => result = [error |-> "missing a required modifier", func |-> 0]
    /\ call.agg_set_modifier # "AggNONE" => result.error # "missing a required modifier"

\* An aggregate call without modifier has failed, although one argument has
\* no type, no overload matches the arguments, and one overload is no aggregate.
C9_Witness ==
    /\ fpc = "done"
    /\ result.error = "missing a required modifier"
    /\ \E i \in 1..Len(call.args) : call.args[i] = None
    /\ \E i \in 1..Len(call.funcs) : ~call.funcs[i].aggregate
    /\ \E i \in 1..Len(call.funcs) : call.funcs[i].aggregate

(***************************************************************************)
(* Document.reduce_Definitions (graphql/parser/grammar/document.py)        *)
(***************************************************************************)
OpNames == {"Foo", "Bar"}
FragNames == {"A", "B"}

\* gqlast.OperationDefinition as Query.reduce_SelectionSet builds it.
ShorthandOperation ==
    [kind |-> "OperationDefinition", type |-> None, name |-> None,
     variables |-> <<>>, directives |-> <<>>]

\* gqlast.OperationDefinition as the production with a QueryTypeTok builds it.
TypedOperations ==
    {[kind |-> "OperationDefinition", type |-> "query", name |-> n,
      variables |-> v, directives |-> d] :
        n \in OpNames \cup {None}, v \in {<<>>, <<"$v">>}, d \in {<<>>, <<"@d">>}}

FragmentDefinitions ==
    {[kind |-> "FragmentDefinition", type |-> None, name |-> n,
      variables |-> <<>>, directives |-> <<>>] : n \in FragNames}

Definitions == {ShorthandOperation} \cup TypedOperations \cup FragmentDefinitions

InitDoc ==
    /\ IdleDb /\ IdleIndex /\ IdleFunc
    /\ defs \in UNION {[1..k -> Definitions] : k \in 1..MaxDefs}
    /\ di = 0
    /\ short = 0
    /\ opnames = {}
    /\ fragnames = {}
    /\ outcome = "reducing"
    /\ pending = <<>>
    /\ rejected = <<>>
    /\ dup = 0
    /\ listdup = FALSE
    /\ vartype = NoVarType

\* Lines 151-169, one turn of the loop; short holds the position of the
\* definition it refers to, 0 for None.
ReduceDefinition ==
    /\ outcome = "reducing"
    /\ di < Len(defs)
    /\ di' = di + 1
    /\ LET defn == defs[di + 1]
       IN IF defn.kind = "OperationDefinition"
          THEN IF defn.name # None
               THEN IF defn.name \notin opnames
                    THEN /\ opnames' = opnames \cup {defn.name}
                         /\ UNCHANGED <<short, fragnames, outcome>>
                    ELSE /\ outcome' = "GraphQLUniquenessError operation"
                         /\ UNCHANGED <<short, opnames, fragnames>>
               ELSE IF /\ short = 0
                       /\ defn.type = None
                       /\ defn.variables = <<>>
                       /\ defn.directives = <<>>
                    THEN /\ short' = di + 1
                         /\ UNCHANGED <<opnames, fragnames, outcome>>
                    ELSE UNCHANGED <<short, opnames, fragnames, outcome>>
          ELSE IF defn.name \notin fragnames
               THEN /\ fragnames' = fragnames \cup {defn.name}
                    /\ UNCHANGED <<short, opnames, outcome>>
               ELSE /\ outcome' = "GraphQLUniquenessError fragment"
                    /\ UNCHANGED <<short, opnames, fragnames>>
    /\ UNCHANGED <<defs, pending, rejected, dup, listdup>>
    /\ UNCHANGED <<dbvars, idxvars, fnvars, vartype>>

\* Mutant: the short-form test that counts every definition.
short_form_counts_fragments(sh, kid, names) ==
    sh # 0 /\ Len(kid) > 1

\* Line 171: short is not None and len(kid.val) - len(fragnames) > 1
short_form_not_allowed(sh, kid, names) ==
    sh # 0 /\ Len(kid) - Cardinality(names) > 1

\* Lines 171-178
CheckShortForm ==
    /\ outcome = "reducing"
    /\ di = Len(defs)
    /\ outcome' = IF short_form_not_allowed(short, defs, fragnames)
                  THEN "short form is not allowed here"
                  ELSE "Document"
    /\ UNCHANGED <<defs, di, short, opnames, fragnames, pending, rejected, dup, listdup>>
    /\ UNCHANGED <<dbvars, idxvars, fnvars, vartype>>

NextDoc ==
    \/ ReduceDefinition
    \/ CheckShortForm

SpecDoc == InitDoc /\ [][NextDoc]_vars

Operations == {i \in 1..Len(defs) : defs[i].kind = "OperationDefinition"}
Fragments == {i \in 1..Len(defs) : defs[i].kind = "FragmentDefinition"}
Shorthands ==
    {i \in Operations : /\ defs[i].name = None
                        /\ defs[i].type = None
                        /\ defs[i].variables = <<>>
                        /\ defs[i].directives = <<>>}
DuplicateName ==
    \/ \E i, j \in Operations : i # j /\ defs[i].name # None /\ defs[i].name = defs[j].name
    \/ \E i, j \in Fragments : i # j /\ defs[i].name = defs[j].name

\* C10 as stated: reducing the document fails with 'short form is not allowed
\* here' exactly when it has a shorthand operation and more than one operation.
C10_ShortFormExactly ==
    outcome # "reducing" =>
        (outcome = "short form is not allowed here"
            <=> (Shorthands # {} /\ Cardinality(Operations) > 1))

\* C10 amended: reducing the document fails with 'short form is not allowed
\* here' exactly when it has a shorthand operation, more than one operation,
\* and no operation name or fragment name occurs twice (a repeated name fails
\* with the uniqueness error instead); fragments are not counted, so one
\* shorthand operation with distinctly named fragments reduces to a Document.
C10_ShortFormUnlessDuplicate ==
    outcome # "reducing" =>
        /\ outcome = "short form is not allowed here"
            <=> (Shorthands # {} /\ Cardinality(Operations) > 1 /\ ~DuplicateName)
        /\ (Cardinality(Operations) = 1 /\ ~DuplicateName) => outcome = "Document"

\* A shorthand operation, a second operation and a fragment: the short-form error.
C10_Witness ==
    /\ outcome = "short form is not allowed here"
    /\ Cardinality(Operations) = 2
    /\ Fragments # {}

(***************************************************************************)
(* The reductions that come before Document.reduce_Definitions: the        *)
(* parser reduces every Arguments and Variables list, and every            *)
(* definition, as it reaches its end, and the document last.               *)
(***************************************************************************)
MaxNames == 3
MaxParsed == 2

\* The names of arguments and of variables.
Names == {"a", "b"}

\* ArgumentList, VariableList: the names of the elements, in order.
NameLists == UNION {[1..k -> Names] : k \in 1..MaxNames}

\* Mutant: the uniqueness loop that remembers the previous name only.
repeated_name_adjacent(val) ==
    IF \E i \in 2..Len(val) : val[i] = val[i - 1]
    THEN CHOOSE i \in 2..Len(val) :
            /\ val[i] = val[i - 1]
            /\ \A k \in 2..(i - 1) : val[k] # val[k - 1]
    ELSE 0

\* The loop of Arguments.reduce_LPAREN_ArgumentList_RPAREN (and, the same,
\* of Variables.reduce_LPAREN_VariableList_RPAREN) from element i on, with
\* the names added to the set so far: the position of the element the
\* uniqueness error is raised from, 0 when the loop ends.
RECURSIVE uniqueness_loop(_, _, _)
uniqueness_loop(val, i, argnames) ==
    IF i > Len(val) THEN 0
    ELSE IF val[i] \notin argnames
         THEN uniqueness_loop(val, i + 1, argnames \cup {val[i]})
         ELSE i

repeated_name(val) == uniqueness_loop(val, 1, {})

\* A list of names with a name that occurs twice.
HasRepeat(val) == \E i, j \in 1..Len(val) : i < j /\ val[i] = val[j]

InitParse ==
    /\ IdleDb /\ IdleIndex /\ IdleFunc
    /\ defs = <<>>
    /\ di = 0
    /\ short = 0
    /\ opnames = {}
    /\ fragnames = {}
    /\ outcome = "parsing"
    /\ pending = <<>>
    /\ rejected = <<>>
    /\ dup = 0
    /\ listdup = FALSE
    /\ vartype = NoVarType

\* Arguments.reduce_LPAREN_ArgumentList_RPAREN, of a field or a directive.
ReduceArguments ==
    /\ outcome = "parsing"
    /\ \E val \in NameLists :
        /\ listdup' = (listdup \/ HasRepeat(val))
        /\ IF repeated_name(val) # 0
           THEN /\ outcome' = "GraphQLUniquenessError argument"
                /\ rejected' = val
                /\ dup' = repeated_name(val)
           ELSE UNCHANGED <<outcome, rejected, dup>>
    /\ UNCHANGED <<defs, di, short, opnames, fragnames, pending>>
    /\ UNCHANGED <<dbvars, idxvars, fnvars, vartype>>

\* Variables.reduce_LPAREN_VariableList_RPAREN, of the operation being parsed.
ReduceVariables ==
    /\ outcome = "parsing"
    /\ pending = <<>>
    /\ \E val \in NameLists :
        /\ listdup' = (listdup \/ HasRepeat(val))
        /\ IF repeated_name(val) # 0
           THEN /\ outcome' = "GraphQLUniquenessError variable"
                /\ rejected' = val
                /\ dup' = repeated_name(val)
                /\ UNCHANGED pending
           ELSE /\ pending' = val
                /\ UNCHANGED <<outcome, rejected, dup>>
    /\ UNCHANGED <<defs, di, short, opnames, fragnames>>
    /\ UNCHANGED <<dbvars, idxvars, fnvars, vartype>>

\* Query.reduce_QueryTypeTok_OptNameTok_OptVariables_OptDirectives_SelectionSet;
\* Definitions gets the operation.
ReduceQuery ==
    /\ outcome = "parsing"
    /\ Len(defs) < MaxParsed
    /\ \E n \in OpNames \cup {None} :
        defs' = Append(defs, [kind |-> "OperationDefinition", type |-> "query",
                              name |-> n, variables |-> pending,
                              directives |-> <<>>])
    /\ pending' = <<>>
    /\ UNCHANGED <<di, short, opnames, fragnames, outcome, rejected, dup, listdup>>
    /\ UNCHANGED <<dbvars, idxvars, fnvars, vartype>>

\* Query.reduce_SelectionSet; Definitions gets the shorthand operation.
ReduceSelectionSet ==
    /\ outcome = "parsing"
    /\ Len(defs) < MaxParsed
    /\ pending = <<>>
    /\ defs' = Append(defs, ShorthandOperation)
    /\ UNCHANGED <<di, short, opnames, fragnames, outcome, pending, rejected, dup, listdup>>
    /\ UNCHANGED <<dbvars, idxvars, fnvars, vartype>>

\* Fragment.reduce_FRAGMENT_...; Definitions gets the fragment.
ReduceFragment ==
    /\ outcome = "parsing"
    /\ Len(defs) < MaxParsed
    /\ pending = <<>>
    /\ \E f \in FragmentDefinitions : defs' = Append(defs, f)
    /\ UNCHANGED <<di, short, opnames, fragnames, outcome, pending, rejected, dup, listdup>>
    /\ UNCHANGED <<dbvars, idxvars, fnvars, vartype>>

\* Document.reduce_Definitions is entered: lines 148-150.
BeginDocument ==
    /\ outcome = "parsing"
    /\ defs # <<>>
    /\ pending = <<>>
    /\ outcome' = "reducing"
    /\ di' = 0
    /\ short' = 0
    /\ opnames' = {}
    /\ fragnames' = {}
    /\ UNCHANGED <<defs, pending, rejected, dup, listdup>>
    /\ UNCHANGED <<dbvars, idxvars, fnvars, vartype>>

NextParse ==
    \/ ReduceArguments
    \/ ReduceVariables
    \/ ReduceQuery
    \/ ReduceSelectionSet
    \/ ReduceFragment
    \/ BeginDocument
    \/ ReduceDefinition
    \/ CheckShortForm

SpecParse == InitParse /\ [][NextParse]_vars

UniquenessErrors ==
    {"GraphQLUniquenessError operation", "GraphQLUniquenessError fragment",
     "GraphQLUniquenessError argument", "GraphQLUniquenessError variable"}

\* Position i of val is the first that repeats an earlier name (and so the
\* second occurrence of its name).
SecondOccurrence(val, i) ==
    /\ i \in 1..Len(val)
    /\ \E j \in 1..(i - 1) : val[j] = val[i]
    /\ \A k \in 1..(i - 1) : \A j \in 1..(k - 1) : val[j] # val[k]

\* Definition i has the kind and the name of an earlier definition.
RepeatsDefinition(i) ==
    \E j \in 1..(i - 1) :
        /\ defs[j].kind = defs[i].kind
        /\ defs[j].name = defs[i].name
        /\ defs[i].name # None

\* C11: the document is rejected with a uniqueness error if and only if two
\* named operations or two fragments share a name, or an argument list or a
\* variable list holds a name twice; the error is raised from the second
\* occurrence of the name; no list of distinct names is rejected, and no
\* list with a repeated name is reduced without the error.
C11_Uniqueness ==
    /\ outcome \in {"parsing", "reducing"} => ~listdup
    /\ outcome \notin {"parsing", "reducing"} =>
            (outcome \in UniquenessErrors <=> (listdup \/ DuplicateName))
    /\ outcome \in {"GraphQLUniquenessError argument",
                    "GraphQLUniquenessError variable"} =>
            HasRepeat(rejected) /\ SecondOccurrence(rejected, dup)
    /\ outcome \in {"GraphQLUniquenessError operation",
                    "GraphQLUniquenessError fragment"} =>
            /\ RepeatsDefinition(di)
            /\ \A k \in 1..(di - 1) : ~RepeatsDefinition(k)
            /\ defs[di].kind = IF outcome = "GraphQLUniquenessError operation"
                               THEN "OperationDefinition" ELSE "FragmentDefinition"

\* An argument list was rejected at its third name, the second occurrence
\* of the first one, after an operation with two distinct variables.
C11_Witness ==
    /\ outcome = "GraphQLUniquenessError argument"
    /\ dup = 3
    /\ rejected[1] = rejected[3]
    /\ \E i \in 1..Len(defs) : Len(defs[i].variables) = 2

(***************************************************************************)
(* VarType: the derivations of the nonterminal and the VariableType each   *)
(* reduction builds.                                                       *)
(***************************************************************************)
MaxDepth == 4

TypeNames == {"Int", "String"}

\* gqlast.VariableType(name, list, nullable): list is False and nullable
\* True unless the reduction says otherwise.
VariableType(name, list, nullable) ==
    [name |-> name, list |-> list, nullable |-> nullable]

reduce_NameTok(kid) == VariableType(kid, FALSE, TRUE)

reduce_NameTok_BANG(kid) == VariableType(kid, FALSE, FALSE)

\* Mutant: a list of a list is kept as one level of list.
reduce_list_one_level(kid) ==
    VariableType(IF kid.list THEN kid.name ELSE kid, TRUE, TRUE)

\* name=kids[1].val: the VariableType inside the brackets, whatever it is.
reduce_LSBRACKET_VarType_RSBRACKET(kid) == VariableType(kid, TRUE, TRUE)

reduce_LSBRACKET_VarType_RSBRACKET_BANG(kid) == VariableType(kid, TRUE, FALSE)

\* The levels of list brackets of a VariableType.
RECURSIVE Depth(_)
Depth(val) == IF val.list THEN 1 + Depth(val.name) ELSE 0

InitVarType ==
    /\ IdleDb /\ IdleIndex /\ IdleFunc
    /\ defs = <<>>
    /\ di = 0
    /\ short = 0
    /\ opnames = {}
    /\ fragnames = {}
    /\ outcome = "parsing"
    /\ pending = <<>>
    /\ rejected = <<>>
    /\ dup = 0
    /\ listdup = FALSE
    /\ vartype = NoVarType

VarTypeUnchanged ==
    UNCHANGED <<defs, di, short, opnames, fragnames, outcome, pending, rejected,
                dup, listdup, dbvars, idxvars, fnvars>>

\* VarType: NameTok
ReduceNameTok ==
    /\ vartype.tokens = <<>>
    /\ \E kid \in TypeNames :
        vartype' = [tokens |-> <<kid>>, val |-> reduce_NameTok(kid)]
    /\ VarTypeUnchanged

\* VarType: NameTok BANG
ReduceNameTokBang ==
    /\ vartype.tokens = <<>>
    /\ \E kid \in TypeNames :
        vartype' = [tokens |-> <<kid, "!">>, val |-> reduce_NameTok_BANG(kid)]
    /\ VarTypeUnchanged

\* VarType: LSBRACKET VarType RSBRACKET
ReduceList ==
    /\ vartype.tokens # <<>>
    /\ Depth(vartype.val) < MaxDepth
    /\ vartype' = [tokens |-> <<"[">> \o vartype.tokens \o <<"]">>,
                   val |-> reduce_LSBRACKET_VarType_RSBRACKET(vartype.val)]
    /\ VarTypeUnchanged

\* VarType: LSBRACKET VarType RSBRACKET BANG
ReduceListBang ==
    /\ vartype.tokens # <<>>
    /\ Depth(vartype.val) < MaxDepth
    /\ vartype' = [tokens |-> <<"[">> \o vartype.tokens \o <<"]", "!">>,
                   val |-> reduce_LSBRACKET_VarType_RSBRACKET_BANG(vartype.val)]
    /\ VarTypeUnchanged

NextVarType ==
    \/ ReduceNameTok
    \/ ReduceNameTokBang
    \/ ReduceList
    \/ ReduceListBang

SpecVarType == InitVarType /\ [][NextVarType]_vars

\* The tokens a VariableType is written with.
RECURSIVE Written(_)
Written(val) ==
    (IF val.list THEN <<"[">> \o Written(val.name) \o <<"]">> ELSE <<val.name>>)
        \o (IF val.nullable THEN <<>> ELSE <<"!">>)

Brackets(tokens) == Cardinality({i \in 1..Len(tokens) : tokens[i] = "["})

\* C12 as stated: a variable type derivable from VarType has at most one
\* level of list brackets.
C12_AtMostOneLevel ==
    vartype.tokens # <<>> => Brackets(vartype.tokens) <= 1

\* C12 amended: a variable type derivable from VarType is a name, optionally
\* followed by '!', wrapped in any number of levels of list brackets, each
\* level optionally followed by '!'; its VariableType has one list level
\* for each pair of brackets.
C12_AnyNumberOfLevels ==
    vartype.tokens # <<>> =>
        /\ Written(vartype.val) = vartype.tokens
        /\ Depth(vartype.val) = Brackets(vartype.tokens)

\* [[Int!]]! has been derived.
C12_Witness ==
    vartype.tokens = <<"[", "[", "Int", "!", "]", "]", "!">>

(***************************************************************************)
(* check_function on calls with fewer arguments than parameters            *)
(***************************************************************************)
\* The call supplies at least one argument and fewer than func declares,
\* every argument is of its parameter's type, and every parameter left
\* without an argument is the variadic one or has a default.
BindsNoTrailing(func, types) ==
    /\ types # <<>>
    /\ Len(types) < Len(func.paramtypes)
    /\ \A i \in 1..Len(types) : issubclass(types[i], func.paramtypes[i])
    /\ \A i \in (Len(types) + 1)..Len(func.paramtypes) :
            i = func.varparam \/ func.paramdefaults[i] # None

\* C13: check_function returns true or false for every overload and every
\* list of argument types, never fails, and returns true when the only
\* parameters the call leaves unfilled are variadic or defaulted.
C13_CheckFunctionTotal ==
    /\ result.error # "AttributeError"
    /\ (fpc = "match" /\ nchecked < Len(call.funcs)) =>
            /\ check_function(call.funcs[nchecked + 1], arg_types) \in {"True", "False"}
            /\ BindsNoTrailing(call.funcs[nchecked + 1], arg_types) =>
                    check_function(call.funcs[nchecked + 1], arg_types) = "True"

(***************************************************************************)
(* The view a start that raised leaves behind                              *)
(***************************************************************************)
\* C14: in every state of a DatabaseConnectionView, the one a start that
\* raised leaves behind included, in_tx implies that txid is present.
C14_InTxHasTxid ==
    \A s \in Sessions : view[s].in_tx => Truthy(view[s].txid)

====
